---------------------------- MODULE Spec2Model ----------------------------
(***************************************************************************)
(* Status-coordination core of the PMI emergency transport backend:        *)
(* Request (Report) / Assignment / Vehicle rows and the service handlers   *)
(* that keep them consistent (services/assignment_service.py,              *)
(* services/new_report_service.py).                                        *)
(***************************************************************************)
EXTENDS Integers, FiniteSets, Sequences, TLC

(***************************************************************************)
(* Bounds of the model                                                     *)
(***************************************************************************)
MaxReports == 1
MaxVehicles == 2
MaxAssign == 2
MaxSessions == 2

ReportIds == 1..MaxReports
VehicleIds == 1..MaxVehicles
AssignIds == 1..MaxAssign
SessionIds == 1..MaxSessions

\* Python None / SQL NULL in an integer-keyed column
NULL == 0
\* an identifier that resolves to no row of any table
UnknownId == -1
\* datetime.utcnow(): the one instant the model tells from "never completed"
utcnow == 1
\* Python None in a user-id field, and a user id that resolves to no user
NoUser == "none"
UnknownUser == "ghost"

(***************************************************************************)
(* Fixed value sets                                                        *)
(***************************************************************************)
\* models/report.py: status column
ReportStatuses ==
    {"pending", "assigned", "on_way", "arrived_pickup",
     "arrived_destination", "done", "canceled"}

\* models/assignment.py: status column
AssignmentStatuses ==
    {"active", "assigned", "on_progress", "completed", "cancelled"}

TerminalAssignmentStatuses == {"completed", "cancelled"}

\* models/vehicle.py: status column
VehicleStatuses == {"available", "in_use", "maintenance"}

\* the users table: id -> role (models/user.py)
UserRole ==
    [u \in {"admin1", "reporter1", "driver1", "driver2"} |->
        CASE u = "admin1" -> "admin"
          [] u = "reporter1" -> "reporter"
          [] OTHER -> "driver"]

UserIds == DOMAIN UserRole

\* the Request.status -> Assignment.status table, as the sync script has it
status_mapping(s) ==
    CASE s = "pending" -> "active"
      [] s = "assigned" -> "assigned"
      [] s = "on_way" -> "on_progress"
      [] s = "arrived_pickup" -> "on_progress"
      [] s = "arrived_destination" -> "on_progress"
      [] s = "done" -> "completed"
      [] s = "canceled" -> "cancelled"
      [] OTHER -> "active"

(***************************************************************************)
(* State: the committed rows of the database                               *)
(***************************************************************************)
VARIABLES
    reports,      \* report id -> status, for the rows of table reports
    vehicles,     \* vehicle id -> status, for the rows of table vehicles
    assignments,  \* assignment id -> row, for the rows of table assignments
    nextId,       \* the next fresh assignment id (uuid4 never repeats)
    last,         \* the call being answered: handler, arguments, response
    sessions,     \* the database sessions of the calls running concurrently
    isolation,    \* the transaction isolation level of the database
    driver_locations,  \* the rows of table driver_locations, in insert order
    now           \* the database server's clock, in seconds

vars == <<reports, vehicles, assignments, nextId, last, sessions, isolation,
          driver_locations, now>>

\* the committed database as one value
DB == [reports |-> reports, vehicles |-> vehicles, assignments |-> assignments]

\* SELECT ... WHERE id = x, scalar_one_or_none()
HasRow(table, x) == x \in DOMAIN table

\* the table without row x (db.delete)
DeleteRow(table, x) == [k \in DOMAIN table \ {x} |-> table[k]]

\* the table with row x added (db.add)
AddRow(table, x, row) ==
    [k \in DOMAIN table \cup {x} |-> IF k = x THEN row ELSE table[k]]

\* get_db: a handler that raises leaves the session uncommitted; closing the
\* session discards its pending changes, so the committed rows stay as they were
SessionClose(committed, pending) == committed

\* await db.commit(): the session's pending changes become the committed rows
Commit(pending) == pending

(***************************************************************************)
(* Handlers, as functions from the committed rows and the request to the   *)
(* HTTP status code, the error detail and the rows committed afterwards    *)
(***************************************************************************)
\* return success_response(...) after await db.commit()
Success(code, pending) ==
    [code |-> code, detail |-> "ok", db |-> Commit(pending)]

\* raise HTTPException(status_code, detail) before the commit
Raise(code, detail, committed, pending) ==
    [code |-> code, detail |-> detail, db |-> SessionClose(committed, pending)]

\* a faulty variant of IsDriver: the role is not checked
IsDriver_AnyRole(x) == x \in UserIds

\* select(User).where(User.id == x) yields a user of role "driver"
IsDriver(x) == x \in UserIds /\ UserRole[x] = "driver"

\* select(Assignment).where(Assignment.report_id == report_id)
AssignmentsOfReport(db, report_id) ==
    {a \in DOMAIN db.assignments : db.assignments[a].report_id = report_id}

\* a faulty variant of NewAssignment: the status is left to the column
\* default "active"
NewAssignment_DefaultStatus(data) ==
    [report_id |-> data.report_id,
     driver_id |-> data.driver_id,
     vehicle_id |-> NULL,
     status |-> "active",
     completed_at |-> NULL,
     coffin_checklist_confirmed |-> FALSE]

\* the new row of create_assignment: Assignment(id, report_id, driver_id, status)
NewAssignment(data) ==
    [report_id |-> data.report_id,
     driver_id |-> data.driver_id,
     vehicle_id |-> NULL,
     status |-> "assigned",
     completed_at |-> NULL,
     \* not a column of the Assignment class: the INSERT leaves the server
     \* default '0' of alembic/versions/add_coffin_checklist.py
     coffin_checklist_confirmed |-> FALSE]

\* services/assignment_service.py: create_assignment
create_assignment(db, data, current_user, uuid) ==
    IF UserRole[current_user] \notin {"admin", "reporter"}
    THEN Raise(403, "forbidden", db, db)
    ELSE IF ~HasRow(db.reports, data.report_id)
    THEN Raise(404, "report not found", db, db)
    ELSE IF ~IsDriver(data.driver_id)
    THEN Raise(404, "driver not found", db, db)
    ELSE LET pending ==
                 [db EXCEPT !.reports[data.report_id] = "assigned",
                            !.assignments = AddRow(@, uuid, NewAssignment(data))]
         IN  Success(201, pending)

\* select(Vehicle).where(Vehicle.id == vehicle_id); if vehicle: its id
FindVehicle(db, vehicle_id) ==
    IF HasRow(db.vehicles, vehicle_id) THEN vehicle_id ELSE NULL

\* a faulty variant of ReleaseOldVehicle: the old vehicle is left as it is
ReleaseOldVehicle_Skipped(db, old_vehicle) == db

\* update_assignment, "Set old vehicle to available"
ReleaseOldVehicle(db, old_vehicle) ==
    IF old_vehicle # NULL
    THEN [db EXCEPT !.vehicles[old_vehicle] = "available"]
    ELSE db

\* a faulty variant of NewVehicleRefused: only a vehicle in maintenance is
\* refused
NewVehicleRefused_OnlyMaintenance(status) == status = "maintenance"

\* update_assignment: if new_vehicle.status != "available": raise
NewVehicleRefused(status) == status # "available"

\* a faulty variant of UpdateDriverAndCommit: the vehicle change is committed
\* before the driver is looked up
UpdateDriverAndCommit_EarlyCommit(db, pending, assignment_id, data, is_admin) ==
    IF data.driver_id # NoUser /\ is_admin
    THEN IF ~IsDriver(data.driver_id)
         THEN Raise(404, "driver not found", Commit(pending), pending)
         ELSE Success(200,
                      [pending EXCEPT
                          !.assignments[assignment_id].driver_id = data.driver_id])
    ELSE Success(200, pending)

\* a faulty variant of UpdateDriverAndCommit: the driver is changed for every
\* caller, and to any id
UpdateDriverAndCommit_AnyCaller(db, pending, assignment_id, data, is_admin) ==
    IF data.driver_id # NoUser
    THEN Success(200,
                 [pending EXCEPT
                     !.assignments[assignment_id].driver_id = data.driver_id])
    ELSE Success(200, pending)

\* update_assignment, "Update driver if changed (admin only)", and the commit
UpdateDriverAndCommit(db, pending, assignment_id, data, is_admin) ==
    IF data.driver_id # NoUser /\ is_admin
    THEN IF ~IsDriver(data.driver_id)
         THEN Raise(404, "driver not found", db, pending)
         ELSE Success(200,
                      [pending EXCEPT
                          !.assignments[assignment_id].driver_id = data.driver_id])
    ELSE Success(200, pending)

\* schemas/assignment.py: AssignmentUpdate; every field is optional
AssignmentUpdate(vehicle_id, driver_id, coffin_checklist_confirmed) ==
    [vehicle_id |-> vehicle_id, driver_id |-> driver_id,
     coffin_checklist_confirmed |-> coffin_checklist_confirmed]

\* services/assignment_service.py: update_assignment; the handler reads
\* data.vehicle_id and data.driver_id and never data.coffin_checklist_confirmed
update_assignment(db, assignment_id, data, current_user) ==
    IF ~HasRow(db.assignments, assignment_id)
    THEN Raise(404, "assignment not found", db, db)
    ELSE
    LET assignment == db.assignments[assignment_id]
        is_admin == UserRole[current_user] = "admin"
        is_own_assignment ==
            UserRole[current_user] = "driver" /\ assignment.driver_id = current_user
        change_vehicle ==
            data.vehicle_id # NULL /\ data.vehicle_id # assignment.vehicle_id
        old_vehicle ==
            IF change_vehicle THEN FindVehicle(db, assignment.vehicle_id) ELSE NULL
        p1 == ReleaseOldVehicle(db, old_vehicle)
        \* new_vehicle.status = "in_use"; assignment.vehicle_id = ...
        p2 == [p1 EXCEPT !.vehicles[data.vehicle_id] = "in_use",
                         !.assignments[assignment_id].vehicle_id = data.vehicle_id]
    IN  IF ~is_admin /\ ~is_own_assignment
        THEN Raise(403, "forbidden", db, db)
        ELSE IF ~change_vehicle
        THEN UpdateDriverAndCommit(db, db, assignment_id, data, is_admin)
        ELSE IF FindVehicle(p1, data.vehicle_id) = NULL
        THEN Raise(404, "vehicle not found", db, p1)
        ELSE IF NewVehicleRefused(p1.vehicles[data.vehicle_id])
        THEN Raise(400, p1.vehicles[data.vehicle_id], db, p1)
        ELSE UpdateDriverAndCommit(db, p2, assignment_id, data, is_admin)

\* a faulty variant of delete_assignment: the request keeps its status
delete_assignment_KeepsRequest(db, assignment_id, current_user) ==
    IF UserRole[current_user] # "admin"
    THEN Raise(403, "forbidden", db, db)
    ELSE IF ~HasRow(db.assignments, assignment_id)
    THEN Raise(404, "assignment not found", db, db)
    ELSE
    LET assignment == db.assignments[assignment_id]
        vehicle == FindVehicle(db, assignment.vehicle_id)
        p1 == IF vehicle # NULL
              THEN [db EXCEPT !.vehicles[vehicle] = "available"]
              ELSE db
        p3 == [p1 EXCEPT !.assignments = DeleteRow(@, assignment_id)]
    IN  Success(200, p3)

\* services/assignment_service.py: delete_assignment
delete_assignment(db, assignment_id, current_user) ==
    IF UserRole[current_user] # "admin"
    THEN Raise(403, "forbidden", db, db)
    ELSE IF ~HasRow(db.assignments, assignment_id)
    THEN Raise(404, "assignment not found", db, db)
    ELSE
    LET assignment == db.assignments[assignment_id]
        vehicle == FindVehicle(db, assignment.vehicle_id)
        p1 == IF vehicle # NULL
              THEN [db EXCEPT !.vehicles[vehicle] = "available"]
              ELSE db
        p2 == IF HasRow(p1.reports, assignment.report_id)
              THEN [p1 EXCEPT !.reports[assignment.report_id] = "pending"]
              ELSE p1
        p3 == [p2 EXCEPT !.assignments = DeleteRow(@, assignment_id)]
    IN  Success(200, p3)

\* services/new_report_service.py: update_report_status, valid_statuses
valid_statuses ==
    {"pending", "assigned", "on_way", "arrived_pickup",
     "arrived_destination", "done", "canceled"}

\* a faulty variant of CompleteAssignment: the vehicle stays in_use
CompleteAssignment_KeepsVehicle(db, a) ==
    Success(200, [db EXCEPT !.assignments[a].status = "completed",
                            !.assignments[a].completed_at = utcnow])

\* a faulty variant of CompleteAssignment: completed_at is never set
CompleteAssignment_NoTimestamp(db, a) ==
    LET p2 == [db EXCEPT !.assignments[a].status = "completed"]
    IN  IF p2.assignments[a].vehicle_id # NULL
           /\ HasRow(p2.vehicles, p2.assignments[a].vehicle_id)
        THEN Success(200, [p2 EXCEPT !.vehicles[p2.assignments[a].vehicle_id] = "available"])
        ELSE Success(200, p2)

\* update_report_status, status "done": the assignment is completed and its
\* vehicle, if it has one, set to "available"
CompleteAssignment(db, a) ==
    LET p2 == [db EXCEPT !.assignments[a].status = "completed",
                         !.assignments[a].completed_at = utcnow]
        vehicle == IF p2.assignments[a].vehicle_id # NULL
                   THEN FindVehicle(p2, p2.assignments[a].vehicle_id)
                   ELSE NULL
    IN  IF vehicle # NULL
        THEN Success(200, [p2 EXCEPT !.vehicles[vehicle] = "available"])
        ELSE Success(200, p2)

\* a faulty variant of update_report_status: a request that is done or
\* canceled is never changed again
update_report_status_TerminalGuard(db, report_id, status) ==
    IF ~HasRow(db.reports, report_id)
    THEN Raise(404, "report not found", db, db)
    ELSE IF db.reports[report_id] \in {"done", "canceled"}
    THEN Raise(400, "invalid state", db, db)
    ELSE Success(200, [db EXCEPT !.reports[report_id] = status])

\* services/new_report_service.py: update_report_status
\* (current_user is a parameter the handler never reads)
update_report_status(db, report_id, status) ==
    IF ~HasRow(db.reports, report_id)
    THEN Raise(404, "report not found", db, db)
    ELSE IF status \notin valid_statuses
    THEN Raise(400, "invalid status", db, db)
    ELSE
    LET p1 == [db EXCEPT !.reports[report_id] = status]
        found == AssignmentsOfReport(p1, report_id)
        a == CHOOSE x \in found : TRUE
    IN  IF status \in {"done", "on_way", "assigned"}
        THEN IF Cardinality(found) > 1
             \* scalar_one_or_none() raises MultipleResultsFound
             THEN Raise(500, "multiple results found", db, p1)
             ELSE IF found = {}
             THEN Success(200, p1)
             ELSE IF status = "done"
             THEN CompleteAssignment(p1, a)
             ELSE IF status = "on_way"
             THEN Success(200, [p1 EXCEPT !.assignments[a].status = "on_progress"])
             ELSE Success(200, [p1 EXCEPT !.assignments[a].status = "assigned"])
        ELSE Success(200, p1)

\* a faulty variant of ReportStatusUpdate: the field has no pattern
ReportStatusUpdate_NoPattern(status) == TRUE

\* schemas/report.py: ReportStatusUpdate, the pattern of field status; a body
\* that does not match is answered 422 before the handler runs
ReportStatusUpdate(status) ==
    status \in {"pending", "assigned", "on_way", "arrived_pickup",
                "arrived_destination", "done", "canceled"}

(***************************************************************************)
(* The record of the call being answered: the handler, its arguments, the  *)
(* response, and the rows that were committed when the call arrived        *)
(***************************************************************************)
EmptyDB == [reports |-> <<>>, vehicles |-> <<>>, assignments |-> <<>>]

\* an optional boolean of a request body: absent, or the value sent
Absent == {}
Sent(b) == {b}

Args(a, r, v, d, s, u) ==
    [assignment_id |-> a, report_id |-> r, vehicle_id |-> v, driver_id |-> d,
     status |-> s, current_user |-> u, coffin_checklist_confirmed |-> Absent]

NoArgs == Args(NULL, NULL, NULL, NoUser, "none", NoUser)

\* the data of a response that carries none
NoData == <<>>

Call(op, args, pre, out) ==
    [op |-> op, args |-> args, code |-> out.code, detail |-> out.detail,
     pre |-> pre, locations |-> driver_locations,
     data |-> IF "data" \in DOMAIN out THEN out.data ELSE NoData]

NoCall == [op |-> "none", args |-> NoArgs, code |-> 0, detail |-> "ok",
           pre |-> EmptyDB, locations |-> <<>>, data |-> NoData]

(***************************************************************************)
(* Initial state and the operations                                        *)
(***************************************************************************)
Init ==
    /\ reports = [r \in ReportIds |-> "pending"]
    /\ vehicles \in {f \in [VehicleIds -> {"available", "maintenance"}] :
                       \A v \in VehicleIds : v < MaxVehicles => f[v] = "available"}
    /\ assignments = <<>>
    /\ nextId = 1
    /\ last = NoCall
    /\ sessions = <<>>
    /\ isolation = "REPEATABLE READ"
    /\ driver_locations = <<>>
    /\ now = 0

Install(out) ==
    /\ reports' = out.db.reports
    /\ vehicles' = out.db.vehicles
    /\ assignments' = out.db.assignments
    /\ UNCHANGED <<sessions, isolation, now>>

\* POST /assignments
CreateAssignment(r, d, u) ==
    /\ last = NoCall
    /\ nextId <= MaxAssign
    /\ LET out == create_assignment(DB, [report_id |-> r, driver_id |-> d], u, nextId)
       IN  /\ Install(out)
           /\ nextId' = IF out.code = 201 THEN nextId + 1 ELSE nextId
           /\ last' = Call("create_assignment",
                           Args(nextId, r, NULL, d, "none", u), DB, out)
    /\ UNCHANGED driver_locations

\* PUT /assignments/{assignment_id}
UpdateAssignment(a, v, d, u) ==
    /\ last = NoCall
    /\ LET out == update_assignment(DB, a, AssignmentUpdate(v, d, Absent), u)
       IN  /\ Install(out)
           /\ last' = Call("update_assignment",
                           Args(a, NULL, v, d, "none", u), DB, out)
    /\ UNCHANGED <<nextId, driver_locations>>

\* PUT /assignments/{assignment_id} with the body
\* {"coffin_checklist_confirmed": true}
ConfirmCoffinChecklist(a, u) ==
    /\ last = NoCall
    /\ LET out == update_assignment(DB, a,
                                    AssignmentUpdate(NULL, NoUser, Sent(TRUE)), u)
       IN  /\ Install(out)
           /\ last' = [Call("update_assignment",
                            Args(a, NULL, NULL, NoUser, "none", u), DB, out)
                       EXCEPT !.args.coffin_checklist_confirmed = Sent(TRUE)]
    /\ UNCHANGED <<nextId, driver_locations>>

\* a faulty variant of Orphaned: the location rows keep the id of the deleted
\* assignment
Orphaned_Kept(locations, a) == locations

\* models/driver_location.py: relationship("Assignment",
\* backref="driver_locations") without a delete cascade: when the assignment
\* is deleted the flush sets assignment_id of its location rows to NULL
Orphaned(locations, a) ==
    [i \in DOMAIN locations |->
        IF locations[i].assignment_id = a
        THEN [locations[i] EXCEPT !.assignment_id = NULL]
        ELSE locations[i]]

\* DELETE /assignments/{assignment_id}
DeleteAssignment(a, u) ==
    /\ last = NoCall
    /\ LET out == delete_assignment(DB, a, u)
       IN  /\ Install(out)
           /\ last' = Call("delete_assignment",
                           Args(a, NULL, NULL, NoUser, "none", u), DB, out)
           /\ driver_locations' = IF out.code = 200
                                  THEN Orphaned(driver_locations, a)
                                  ELSE driver_locations
    /\ UNCHANGED nextId

\* PUT /reports/{report_id}/status
SetRequestStatus(r, s) ==
    /\ last = NoCall
    /\ LET out == IF ReportStatusUpdate(s)
                  THEN update_report_status(DB, r, s)
                  ELSE Raise(422, "invalid status", DB, DB)
       IN  /\ Install(out)
           /\ last' = Call("update_report_status",
                           Args(NULL, r, NULL, NoUser, s, NoUser), DB, out)
    /\ UNCHANGED <<nextId, driver_locations>>

\* the response is delivered: the server is ready for the next call
Respond ==
    /\ last # NoCall
    /\ last' = NoCall
    /\ UNCHANGED <<reports, vehicles, assignments, nextId, sessions, isolation,
                   driver_locations, now>>

\* the authenticated callers: one of each role (a driver other than driver1
\* differs from driver1 only as a non-owner, which driver1 is too once the
\* assignment is given to driver2)
Callers == {"admin1", "reporter1", "driver1"}

\* identifiers a caller may send: those of rows that can exist, and one of none
\* (an assignment id not yet created, or deleted, is the one of none)
ReportIdInputs == ReportIds \cup {UnknownId}
VehicleIdInputs == VehicleIds \cup {UnknownId, NULL}
AssignIdInputs == AssignIds
DriverIdInputs == {"driver1", "driver2", "reporter1", UnknownUser}
StatusInputs == ReportStatuses \cup {"bogus"}

Next ==
    \/ \E r \in ReportIdInputs, d \in DriverIdInputs, u \in Callers :
           CreateAssignment(r, d, u)
    \/ \E a \in AssignIdInputs, v \in VehicleIdInputs,
          d \in DriverIdInputs \cup {NoUser}, u \in Callers :
           UpdateAssignment(a, v, d, u)
    \/ \E a \in AssignIdInputs, u \in Callers : DeleteAssignment(a, u)
    \/ \E r \in ReportIdInputs, s \in StatusInputs : SetRequestStatus(r, s)
    \/ \E a \in AssignIdInputs, u \in Callers : ConfirmCoffinChecklist(a, u)
    \/ Respond

Spec == Init /\ [][Next]_vars

(***************************************************************************)
(* The admin's edit operations on vehicles and reports                     *)
(* (services/vehicle_service.py, services/new_report_service.py); of the   *)
(* edited fields only status is part of the state.                         *)
(***************************************************************************)
\* Python None in a status field
NoStatus == "none"

\* schemas/vehicle.py: VehicleUpdate, the pattern of the optional field status
VehicleUpdate(status) == status = NoStatus \/ status \in VehicleStatuses

\* services/vehicle_service.py: update_vehicle
update_vehicle(db, vehicle_id, data, current_user) ==
    IF UserRole[current_user] # "admin"
    THEN Raise(403, "forbidden", db, db)
    ELSE IF ~HasRow(db.vehicles, vehicle_id)
    THEN Raise(404, "vehicle not found", db, db)
    ELSE IF data.status # NoStatus
    THEN Success(200, [db EXCEPT !.vehicles[vehicle_id] = data.status])
    ELSE Success(200, db)

\* schemas/report.py: ReportUpdate, the pattern of the optional field status
ReportUpdate(status) == status = NoStatus \/ status \in ReportStatuses

\* services/new_report_service.py: update_report
update_report(db, report_id, data, current_user) ==
    IF UserRole[current_user] # "admin"
    THEN Raise(403, "forbidden", db, db)
    ELSE IF ~HasRow(db.reports, report_id)
    THEN Raise(404, "report not found", db, db)
    ELSE IF data.status # NoStatus
    THEN Success(200, [db EXCEPT !.reports[report_id] = data.status])
    ELSE Success(200, db)

\* PUT /vehicles/{vehicle_id}
UpdateVehicle(v, s, u) ==
    /\ last = NoCall
    /\ LET out == IF VehicleUpdate(s)
                  THEN update_vehicle(DB, v, [status |-> s], u)
                  ELSE Raise(422, "invalid status", DB, DB)
       IN  /\ Install(out)
           /\ last' = Call("update_vehicle",
                           Args(NULL, NULL, v, NoUser, s, u), DB, out)
    /\ UNCHANGED <<nextId, driver_locations>>

\* PUT /reports/{report_id}
UpdateReport(r, s, u) ==
    /\ last = NoCall
    /\ LET out == IF ReportUpdate(s)
                  THEN update_report(DB, r, [status |-> s], u)
                  ELSE Raise(422, "invalid status", DB, DB)
       IN  /\ Install(out)
           /\ last' = Call("update_report",
                           Args(NULL, r, NULL, NoUser, s, u), DB, out)
    /\ UNCHANGED <<nextId, driver_locations>>

VehicleStatusInputs == VehicleStatuses \cup {NoStatus, "bogus"}
ReportStatusInputs == {"assigned", "on_way", "done", NoStatus, "bogus"}

\* the assignment and status operations as an admin calls them, and the
\* admin's edits
AdminNext ==
    \/ \E r \in ReportIds : CreateAssignment(r, "driver1", "admin1")
    \/ \E a \in AssignIds, v \in VehicleIds :
           UpdateAssignment(a, v, NoUser, "admin1")
    \/ \E a \in AssignIds : DeleteAssignment(a, "admin1")
    \/ \E r \in ReportIds, s \in ReportStatuses : SetRequestStatus(r, s)
    \/ \E v \in VehicleIdInputs, s \in VehicleStatusInputs, u \in Callers :
           UpdateVehicle(v, s, u)
    \/ \E r \in ReportIdInputs, s \in ReportStatusInputs, u \in Callers :
           UpdateReport(r, s, u)
    \/ Respond

SpecAdmin == Init /\ [][AdminNext]_vars

(***************************************************************************)
(* Driver locations and the presence snapshot                              *)
(* (services/driver_location_service.py).  Coordinates are in units of     *)
(* 1/10000 degree.                                                         *)
(***************************************************************************)
MaxLocations == 2
MaxClock == 1

DEFAULT_LATITUDE == -62088
DEFAULT_LONGITUDE == 1068456

\* the users of role "driver", in the order select(User) yields them
Drivers == <<"driver1", "driver2">>

\* new_location = DriverLocation(...); the timestamp is the server default
\* func.now(), a DATETIME in whole seconds
NewLocation(data, timestamp) ==
    [driver_id |-> data.driver_id, assignment_id |-> data.assignment_id,
     latitude |-> data.latitude, longitude |-> data.longitude,
     timestamp |-> timestamp]

\* services/driver_location_service.py: create_driver_location; the result
\* carries the rows of driver_locations instead of the three other tables
create_driver_location(db, locations, data, current_user, timestamp) ==
    IF ~IsDriver(data.driver_id)
    THEN [code |-> 404, detail |-> "driver not found", locations |-> locations]
    ELSE IF UserRole[current_user] = "driver" /\ current_user # data.driver_id
    THEN [code |-> 403, detail |-> "forbidden", locations |-> locations]
    ELSE IF data.assignment_id # NULL /\ ~HasRow(db.assignments, data.assignment_id)
    \* ForeignKey("assignments.id"): the INSERT raises IntegrityError
    THEN [code |-> 500, detail |-> "integrity error", locations |-> locations]
    ELSE [code |-> 201, detail |-> "ok",
          locations |-> Append(locations, NewLocation(data, timestamp))]

\* select(DriverLocation).where(driver_id == d)
\* .order_by(desc(timestamp)).limit(1): the rows the query may return, one of
\* those with the greatest timestamp
LatestLocations(locations, d) ==
    {i \in DOMAIN locations :
        /\ locations[i].driver_id = d
        /\ \A j \in DOMAIN locations :
              locations[j].driver_id = d
              => locations[j].timestamp <= locations[i].timestamp}

\* no report summary in a presence record
NoReport == [id |-> NULL, status |-> "none"]

\* a faulty variant of LocationRecord: a finished request is still shown
LocationRecord_KeepsFinished(db, locations, i) ==
    LET location == locations[i]
    IN  [id |-> i, driver_id |-> location.driver_id,
         latitude |-> location.latitude, longitude |-> location.longitude,
         timestamp |-> location.timestamp,
         assignment_id |-> location.assignment_id,
         has_location |-> TRUE, status |-> "none",
         vehicle |-> NULL, report |-> NoReport]

\* a faulty variant of LocationRecord: every driver is shown without a job
LocationRecord_AlwaysIdle(db, locations, i) ==
    [LocationRecord_KeepsFinished(db, locations, i) EXCEPT !.assignment_id = NULL]

\* a faulty variant of LocationRecord: the vehicle is left out
LocationRecord_NoVehicle(db, locations, i) ==
    LET location == locations[i]
        a == location.assignment_id
        found == a # NULL /\ HasRow(db.assignments, a)
        r == IF found THEN db.assignments[a].report_id ELSE NULL
        has_report == found /\ HasRow(db.reports, r)
        finished == has_report /\ db.reports[r] \in {"done", "canceled"}
    IN  [id |-> i, driver_id |-> location.driver_id,
         latitude |-> location.latitude, longitude |-> location.longitude,
         timestamp |-> location.timestamp,
         assignment_id |-> IF finished THEN NULL ELSE a,
         has_location |-> TRUE, status |-> "none",
         vehicle |-> NULL,
         report |-> IF has_report /\ ~finished
                    THEN [id |-> r, status |-> db.reports[r]]
                    ELSE NoReport]

\* get_all_active_driver_locations: the record of a driver whose latest
\* location is row i
LocationRecord(db, locations, i) ==
    LET location == locations[i]
        a == location.assignment_id
        found == a # NULL /\ HasRow(db.assignments, a)
        vehicle == IF found THEN FindVehicle(db, db.assignments[a].vehicle_id)
                   ELSE NULL
        r == IF found THEN db.assignments[a].report_id ELSE NULL
        has_report == found /\ HasRow(db.reports, r)
        finished == has_report /\ db.reports[r] \in {"done", "canceled"}
    IN  [id |-> i, driver_id |-> location.driver_id,
         latitude |-> location.latitude, longitude |-> location.longitude,
         timestamp |-> location.timestamp,
         assignment_id |-> IF finished THEN NULL ELSE a,
         has_location |-> TRUE, status |-> "none",
         vehicle |-> vehicle,
         report |-> IF has_report /\ ~finished
                    THEN [id |-> r, status |-> db.reports[r]]
                    ELSE NoReport]

\* a faulty variant of Placeholder: the driver's last known job is shown
Placeholder_WithJob(db, d) ==
    [id |-> NULL, driver_id |-> d,
     latitude |-> DEFAULT_LATITUDE, longitude |-> DEFAULT_LONGITUDE,
     timestamp |-> now,
     assignment_id |->
        IF \E a \in DOMAIN db.assignments : db.assignments[a].driver_id = d
        THEN CHOOSE a \in DOMAIN db.assignments : db.assignments[a].driver_id = d
        ELSE NULL,
     has_location |-> FALSE, status |-> "no_location",
     vehicle |-> NULL, report |-> NoReport]

\* get_all_active_driver_locations: the record of a driver without location
Placeholder(db, d) ==
    [id |-> NULL, driver_id |-> d,
     latitude |-> DEFAULT_LATITUDE, longitude |-> DEFAULT_LONGITUDE,
     timestamp |-> now, assignment_id |-> NULL,
     has_location |-> FALSE, status |-> "no_location",
     vehicle |-> NULL, report |-> NoReport]

\* a faulty variant of get_all_active_driver_locations: only the drivers
\* that have recorded a location are listed
get_all_active_driver_locations_OnlyLocated(db, locations, current_user, latest) ==
    IF UserRole[current_user] \notin {"admin", "reporter"}
    THEN [code |-> 403, detail |-> "forbidden", data |-> NoData,
          locations |-> locations]
    ELSE LET located == SelectSeq(Drivers, LAMBDA d : latest[d] # NULL)
         IN  [code |-> 200, detail |-> "ok",
              data |-> [k \in DOMAIN located |->
                          LocationRecord(db, locations, latest[located[k]])],
              locations |-> locations]

\* a faulty variant of get_all_active_driver_locations: assignment_id is
\* cleared on the stored row, and committed, instead of on the copy
get_all_active_driver_locations_WritesThrough(db, locations, current_user, latest) ==
    IF UserRole[current_user] \notin {"admin", "reporter"}
    THEN [code |-> 403, detail |-> "forbidden", data |-> NoData,
          locations |-> locations]
    ELSE [code |-> 200, detail |-> "ok",
          data |-> [k \in DOMAIN Drivers |->
                      IF latest[Drivers[k]] # NULL
                      THEN LocationRecord(db, locations, latest[Drivers[k]])
                      ELSE Placeholder(db, Drivers[k])],
          locations |->
              [i \in DOMAIN locations |->
                  IF \E k \in DOMAIN Drivers : latest[Drivers[k]] = i
                  THEN [locations[i] EXCEPT
                           !.assignment_id =
                               LocationRecord(db, locations, i).assignment_id]
                  ELSE locations[i]]]

\* services/driver_location_service.py: get_all_active_driver_locations;
\* latest[d] is the row the query for driver d returned, NULL if none.  The
\* records are dicts copied from the rows; the rows themselves are neither
\* changed nor committed, so `locations` comes back as it was
get_all_active_driver_locations(db, locations, current_user, latest) ==
    IF UserRole[current_user] \notin {"admin", "reporter"}
    THEN [code |-> 403, detail |-> "forbidden", data |-> NoData,
          locations |-> locations]
    ELSE [code |-> 200, detail |-> "ok",
          data |-> [k \in DOMAIN Drivers |->
                      IF latest[Drivers[k]] # NULL
                      THEN LocationRecord(db, locations, latest[Drivers[k]])
                      ELSE Placeholder(db, Drivers[k])],
          locations |-> locations]

\* the answers the per-driver queries may give
LatestChoices(locations) ==
    {f \in [{Drivers[k] : k \in DOMAIN Drivers} -> DOMAIN locations \cup {NULL}] :
        \A k \in DOMAIN Drivers :
            IF LatestLocations(locations, Drivers[k]) = {}
            THEN f[Drivers[k]] = NULL
            ELSE f[Drivers[k]] \in LatestLocations(locations, Drivers[k])}

\* DriverLocationResponse.model_validate(location).model_dump()
DriverLocationResponse(locations, i) ==
    [id |-> i, driver_id |-> locations[i].driver_id,
     latitude |-> locations[i].latitude, longitude |-> locations[i].longitude,
     timestamp |-> locations[i].timestamp,
     assignment_id |-> locations[i].assignment_id]

\* services/driver_location_service.py: get_driver_latest_location; latest is
\* the row the query returned, NULL if none.  The route's own `if not
\* location` branch is never taken: the service either raises or returns a
\* non-empty dict
get_driver_latest_location(db, locations, driver_id, current_user, latest) ==
    IF ~IsDriver(driver_id)
    THEN [code |-> 404, detail |-> "driver not found", data |-> NoData,
          locations |-> locations]
    ELSE IF latest = NULL
    \* if not location: raise HTTPException(404)
    THEN [code |-> 404, detail |-> "location not found", data |-> NoData,
          locations |-> locations]
    ELSE [code |-> 200, detail |-> "ok",
          data |-> DriverLocationResponse(locations, latest),
          locations |-> locations]

\* the rows of driver d
RowsOf(locations, d) == {i \in DOMAIN locations : locations[i].driver_id = d}

\* select(DriverLocation).where(driver_id == d).order_by(desc(timestamp)):
\* the orders the query may return the rows in; rows of one timestamp come in
\* any order, chosen anew by every query
Orderings(locations, d) ==
    LET rows == RowsOf(locations, d)
    IN  {o \in [1..Cardinality(rows) -> rows] :
            /\ \A j, k \in DOMAIN o : j # k => o[j] # o[k]
            /\ \A j, k \in DOMAIN o :
                  j < k => locations[o[j]].timestamp >= locations[o[k]].timestamp}

\* utils/response.py: paginated_response, pages = ceil(total / size)
Pages(total, size) == IF size > 0 THEN (total + size - 1) \div size ELSE 0

\* .offset((page - 1) * size).limit(size) of the rows in order o
PageOf(o, page, size) ==
    LET offset == (page - 1) * size
        upto == IF offset + size < Len(o) THEN offset + size ELSE Len(o)
    IN  [k \in 1..(IF upto > offset THEN upto - offset ELSE 0) |-> o[offset + k]]

\* services/driver_location_service.py: get_driver_location_history, for
\* page >= 1 and size >= 1; order is the order the query returned the
\* driver's rows in
get_driver_location_history(db, locations, driver_id, current_user, page, size, order) ==
    IF UserRole[current_user] \notin {"admin", "driver"}
    THEN [code |-> 403, detail |-> "forbidden", data |-> NoData,
          locations |-> locations]
    ELSE IF ~IsDriver(driver_id)
    THEN [code |-> 404, detail |-> "driver not found", data |-> NoData,
          locations |-> locations]
    ELSE IF UserRole[current_user] = "driver" /\ current_user # driver_id
    THEN [code |-> 403, detail |-> "forbidden", data |-> NoData,
          locations |-> locations]
    ELSE LET total == Cardinality(RowsOf(locations, driver_id))
             items == PageOf(order, page, size)
         IN  [code |-> 200, detail |-> "ok",
              data |-> [items |-> [k \in DOMAIN items |->
                                     DriverLocationResponse(locations, items[k])],
                        total |-> total, page |-> page, size |-> size,
                        pages |-> Pages(total, size)],
              locations |-> locations]

\* a coordinate a driver sends
SentLatitude == 10000
SentLongitude == 20000

\* POST /driver-locations
CreateDriverLocation(d, a, u) ==
    /\ last = NoCall
    /\ Len(driver_locations) < MaxLocations
    /\ LET data == [driver_id |-> d, assignment_id |-> a,
                    latitude |-> SentLatitude, longitude |-> SentLongitude]
           out == create_driver_location(DB, driver_locations, data, u, now)
       IN  /\ driver_locations' = out.locations
           /\ last' = Call("create_driver_location",
                           Args(a, NULL, NULL, d, "none", u), DB, out)
    /\ UNCHANGED <<reports, vehicles, assignments, nextId, sessions, isolation, now>>

\* GET /driver-locations/all/active
GetAllActiveDriverLocations(u) ==
    /\ last = NoCall
    /\ \E latest \in LatestChoices(driver_locations) :
          LET out == get_all_active_driver_locations(DB, driver_locations, u, latest)
          IN  /\ driver_locations' = out.locations
              /\ last' = Call("get_all_active_driver_locations",
                              Args(NULL, NULL, NULL, NoUser, "none", u), DB, out)
    /\ UNCHANGED <<reports, vehicles, assignments, nextId, sessions, isolation, now>>

\* a second passes on the database server
Tick ==
    /\ last = NoCall
    /\ now < MaxClock
    /\ now' = now + 1
    /\ UNCHANGED <<reports, vehicles, assignments, nextId, last, sessions,
                   isolation, driver_locations>>

PresenceStatusInputs == {"on_way", "done", "canceled"}

\* drivers record locations while an admin runs assignments
PresenceNext ==
    \/ \E r \in ReportIds, d \in {"driver1", "driver2"} :
           CreateAssignment(r, d, "admin1")
    \/ \E a \in AssignIds, v \in VehicleIds :
           UpdateAssignment(a, v, NoUser, "admin1")
    \/ \E a \in AssignIds : DeleteAssignment(a, "admin1")
    \/ \E r \in ReportIds, s \in PresenceStatusInputs : SetRequestStatus(r, s)
    \/ \E d \in {"driver1", "driver2", "reporter1"}, a \in AssignIds \cup {NULL},
          u \in {"driver1", "admin1"} :
           CreateDriverLocation(d, a, u)
    \/ \E u \in {"admin1", "driver1"} : GetAllActiveDriverLocations(u)
    \/ Tick
    \/ Respond

SpecPresence == Init /\ [][PresenceNext]_vars

\* GET /driver-locations/{driver_id}
GetDriverLatestLocation(d, u) ==
    /\ last = NoCall
    /\ \E latest \in LatestChoices(driver_locations) :
          LET out == get_driver_latest_location(
                         DB, driver_locations, d, u,
                         IF IsDriver(d) THEN latest[d] ELSE NULL)
          IN  /\ driver_locations' = out.locations
              /\ last' = Call("get_driver_latest_location",
                              Args(NULL, NULL, NULL, d, "none", u), DB, out)
    /\ UNCHANGED <<reports, vehicles, assignments, nextId, sessions, isolation, now>>

MaxPage == 2
MaxSize == 2

\* the call asks for the page after the one just answered, of the same
\* history with the same page size
NextPage(d, u, page, size) ==
    /\ last.op = "get_driver_location_history"
    /\ last.code = 200
    /\ last.args.driver_id = d
    /\ last.args.current_user = u
    /\ last.data.response.size = size
    /\ last.data.response.page + 1 = page

\* GET /driver-locations/{driver_id}/history?page=..&size=..; a client may
\* fetch the next page at once, and `fetched` holds the pages it has fetched
\* so far without another call in between
GetDriverLocationHistory(d, u, page, size) ==
    /\ last = NoCall \/ NextPage(d, u, page, size)
    /\ \E order \in Orderings(driver_locations, d) :
          LET out == get_driver_location_history(
                         DB, driver_locations, d, u, page, size, order)
              before == IF last = NoCall THEN <<>> ELSE last.data.fetched
              call == Call("get_driver_location_history",
                           Args(NULL, NULL, NULL, d, "none", u), DB, out)
          IN  /\ driver_locations' = out.locations
              /\ last' = IF out.code = 200
                         THEN [call EXCEPT
                                  !.data = [response |-> out.data,
                                            fetched |-> Append(before, out.data.items)]]
                         ELSE call
    /\ UNCHANGED <<reports, vehicles, assignments, nextId, sessions, isolation, now>>

\* the ids a location call may name as its driver: drivers, users of other
\* roles, and no user at all
LocationDriverInputs == {"driver1", "driver2", "reporter1", "admin1", UnknownUser}

\* drivers record locations and the log is read, while an admin creates and
\* deletes assignments and requests are canceled
LogNext ==
    \/ \E r \in ReportIds : CreateAssignment(r, "driver1", "admin1")
    \/ \E a \in AssignIds : DeleteAssignment(a, "admin1")
    \/ \E r \in ReportIds : SetRequestStatus(r, "canceled")
    \/ \E d \in LocationDriverInputs, a \in AssignIds \cup {NULL},
          u \in {"driver1", "admin1"} :
           CreateDriverLocation(d, a, u)
    \/ \E d \in LocationDriverInputs, u \in {"driver1", "reporter1"} :
           GetDriverLatestLocation(d, u)
    \/ \E d \in LocationDriverInputs, u \in Callers,
          page \in 1..MaxPage, size \in 1..MaxSize :
           GetDriverLocationHistory(d, u, page, size)
    \/ \E u \in {"admin1", "driver1"} : GetAllActiveDriverLocations(u)
    \/ Tick
    \/ Respond

SpecLog == Init /\ [][LogNext]_vars

(***************************************************************************)
(* Concurrent calls of update_assignment.  Every call runs in a session of *)
(* its own; each awaited db.execute(select ...) and the awaited            *)
(* db.commit() is a step that the steps of other calls may come between.   *)
(* A select reads committed rows without locking them: the rows as they    *)
(* are now (READ COMMITTED), or as they were at the session's first select *)
(* (REPEATABLE READ).  The commit flushes one UPDATE per changed column,   *)
(* keyed by the primary key alone, and commits them together.              *)
(***************************************************************************)
IsolationLevels == {"READ COMMITTED", "REPEATABLE READ"}

\* one changed column of one row, as the flush writes it
Write(table, id, column, value) ==
    [table |-> table, id |-> id, column |-> column, value |-> value]

\* the rows a select of session s reads
View(s) ==
    IF isolation = "REPEATABLE READ" /\ sessions[s].snapshot # EmptyDB
    THEN sessions[s].snapshot
    ELSE DB

\* the snapshot of session s after one more select: taken at the first
Snapshot(s) ==
    IF sessions[s].snapshot = EmptyDB THEN DB ELSE sessions[s].snapshot

\* await db.delete(assignment): the row is deleted by the flush
DeleteOf(id) == Write("assignments", id, "deleted", TRUE)

\* the status a table of statuses holds for row id after the UPDATEs
StatusAfter(table, name, id, writes) ==
    IF \E w \in writes : w.table = name /\ w.id = id
    THEN (CHOOSE w \in writes : w.table = name /\ w.id = id).value
    ELSE table[id]

\* an assignment row after the UPDATEs of its columns
RowAfter(row, id, writes) ==
    [column \in DOMAIN row |->
        IF \E w \in writes :
              w.table = "assignments" /\ w.id = id /\ w.column = column
        THEN (CHOOSE w \in writes :
                 w.table = "assignments" /\ w.id = id /\ w.column = column).value
        ELSE row[column]]

\* the rows after the UPDATEs and DELETEs of `writes`
Flush(db, writes) ==
    [reports |->
        [r \in DOMAIN db.reports |-> StatusAfter(db.reports, "reports", r, writes)],
     vehicles |->
        [v \in DOMAIN db.vehicles |-> StatusAfter(db.vehicles, "vehicles", v, writes)],
     assignments |->
        [a \in {x \in DOMAIN db.assignments : DeleteOf(x) \notin writes} |->
            RowAfter(db.assignments[a], a, writes)]]

\* an UPDATE that matches no row: the flush raises StaleDataError (a DELETE
\* that matches no row only warns)
Stale(db, writes) ==
    \E w \in writes \ {DeleteOf(a) : a \in AssignIds} :
        \/ w.table = "reports" /\ ~HasRow(db.reports, w.id)
        \/ w.table = "vehicles" /\ ~HasRow(db.vehicles, w.id)
        \/ w.table = "assignments" /\ ~HasRow(db.assignments, w.id)

Finish(s, code) ==
    sessions' = [sessions EXCEPT ![s].pc = "done", ![s].code = code]

\* result = await db.execute(select(Assignment).where(Assignment.id == ...))
SelectAssignment(s) ==
    /\ sessions[s].pc = "select_assignment"
    /\ LET a == sessions[s].assignment_id
           v == sessions[s].vehicle_id
       IN  IF ~HasRow(View(s).assignments, a)
           THEN Finish(s, 404)
           ELSE sessions' =
                   [sessions EXCEPT
                       ![s].snapshot = DB,
                       ![s].assignment = View(s).assignments[a],
                       ![s].pc = IF v # NULL /\ v # View(s).assignments[a].vehicle_id
                                 THEN "select_old_vehicle"
                                 ELSE "commit"]
    /\ UNCHANGED <<reports, vehicles, assignments, nextId, last, isolation,
                   driver_locations, now>>

\* result = await db.execute(select(Vehicle).where(Vehicle.id ==
\* assignment.vehicle_id)); old_vehicle.status = "available"
SelectOldVehicle(s) ==
    /\ sessions[s].pc = "select_old_vehicle"
    /\ LET old == FindVehicle(View(s), sessions[s].assignment.vehicle_id)
       IN  sessions' =
              [sessions EXCEPT
                  ![s].pc = "select_new_vehicle",
                  ![s].writes =
                      IF old # NULL /\ View(s).vehicles[old] # "available"
                      THEN @ \cup {Write("vehicles", old, "status", "available")}
                      ELSE @]
    /\ UNCHANGED <<reports, vehicles, assignments, nextId, last, isolation,
                   driver_locations, now>>

\* result = await db.execute(select(Vehicle).where(Vehicle.id ==
\* assignment_data.vehicle_id)); the checks; new_vehicle.status = "in_use";
\* assignment.vehicle_id = assignment_data.vehicle_id
SelectNewVehicle(s) ==
    /\ sessions[s].pc = "select_new_vehicle"
    /\ LET v == sessions[s].vehicle_id
           a == sessions[s].assignment_id
       IN  IF FindVehicle(View(s), v) = NULL
           THEN Finish(s, 404)
           ELSE IF NewVehicleRefused(View(s).vehicles[v])
           THEN Finish(s, 400)
           ELSE sessions' =
                   [sessions EXCEPT
                       ![s].pc = "commit",
                       ![s].writes = @ \cup
                           {Write("vehicles", v, "status", "in_use"),
                            Write("assignments", a, "vehicle_id", v)}]
    /\ UNCHANGED <<reports, vehicles, assignments, nextId, last, isolation,
                   driver_locations, now>>

\* await db.commit()
CommitSession(s) ==
    /\ sessions[s].pc = "commit"
    /\ IF Stale(DB, sessions[s].writes)
       THEN /\ Finish(s, 500)
            /\ UNCHANGED <<reports, vehicles, assignments>>
       ELSE /\ Finish(s, 200)
            /\ vehicles' = Flush(DB, sessions[s].writes).vehicles
            /\ assignments' = Flush(DB, sessions[s].writes).assignments
            /\ reports' = Flush(DB, sessions[s].writes).reports
    /\ UNCHANGED <<nextId, last, isolation, driver_locations, now>>

\* no row loaded yet
NoRow == [report_id |-> NULL, driver_id |-> NoUser, vehicle_id |-> NULL,
          status |-> "none", completed_at |-> NULL,
          coffin_checklist_confirmed |-> FALSE]

\* a session whose call has just arrived: PUT /assignments/{a} with
\* vehicle_id = v, sent by an admin
NewSession(a, v, db) ==
    [pc |-> "select_assignment", assignment_id |-> a, vehicle_id |-> v,
     report_id |-> NULL, status |-> "none",
     snapshot |-> EmptyDB, assignment |-> NoRow, writes |-> {}, code |-> 0,
     pre |-> db, locations |-> <<>>, children |-> {}]

\* the committed rows in which assignment a (of request a, live, given to a
\* driver) has vehicle attached[a], and a vehicle is in_use exactly when it
\* is attached
Attached(attached) ==
    [reports |-> [r \in AssignIds |-> "assigned"],
     vehicles |-> [v \in VehicleIds |->
                      IF \E a \in AssignIds : attached[a] = v
                      THEN "in_use" ELSE "available"],
     assignments |-> [a \in AssignIds |->
                         [report_id |-> a, driver_id |-> "driver1",
                          vehicle_id |-> attached[a], status |-> "assigned",
                          completed_at |-> NULL,
                          coffin_checklist_confirmed |-> FALSE]]]

\* MaxSessions calls arrive together, in a state where no vehicle is attached
\* to two assignments
ConcInit ==
    /\ isolation \in IsolationLevels
    /\ \E attached \in [AssignIds -> VehicleIds \cup {NULL}] :
          /\ \A a, b \in AssignIds :
                (a # b /\ attached[a] # NULL) => attached[a] # attached[b]
          /\ reports = Attached(attached).reports
          /\ vehicles = Attached(attached).vehicles
          /\ assignments = Attached(attached).assignments
    /\ \E a \in [SessionIds -> AssignIds], v \in [SessionIds -> VehicleIds] :
          sessions = [s \in SessionIds |-> NewSession(a[s], v[s], DB)]
    /\ nextId = MaxAssign + 1
    /\ last = NoCall
    /\ driver_locations = <<>>
    /\ now = 0

ConcNext ==
    \E s \in SessionIds :
        \/ SelectAssignment(s)
        \/ SelectOldVehicle(s)
        \/ SelectNewVehicle(s)
        \/ CommitSession(s)

SpecConc == ConcInit /\ [][ConcNext]_vars

(***************************************************************************)
(* update_report_status racing delete_assignment, stepped in the same way: *)
(* session 1 runs update_report_status, session 2 delete_assignment.  An   *)
(* attribute assignment becomes an UPDATE only if the value differs from   *)
(* the one the session loaded.                                             *)
(***************************************************************************)
\* a faulty variant of StatusWrite: the assignment is never flushed
StatusWrite_Dropped(table, id, loaded, value) == {}

\* the UPDATE of a status column, if the value changes
StatusWrite(table, id, loaded, value) ==
    IF loaded # value THEN {Write(table, id, "status", value)} ELSE {}

\* update_report_status: select(Report); report.status = status_data.status
StatusSelectReport(s) ==
    /\ sessions[s].pc = "status_select_report"
    /\ LET r == sessions[s].report_id
           new == sessions[s].status
       IN  IF ~HasRow(View(s).reports, r)
           THEN Finish(s, 404)
           ELSE sessions' =
                   [sessions EXCEPT
                       ![s].snapshot = Snapshot(s),
                       ![s].writes = @ \cup
                           StatusWrite("reports", r, View(s).reports[r], new),
                       ![s].pc = IF new \in {"done", "on_way", "assigned"}
                                 THEN "status_select_assignment"
                                 ELSE "commit"]
    /\ UNCHANGED <<reports, vehicles, assignments, nextId, last, isolation,
                   driver_locations, now>>

\* update_report_status: select(Assignment).where(report_id == ...) and the
\* assignment's new status
StatusSelectAssignment(s) ==
    /\ sessions[s].pc = "status_select_assignment"
    /\ LET found == AssignmentsOfReport(View(s), sessions[s].report_id)
           a == CHOOSE x \in found : TRUE
           row == View(s).assignments[a]
           new == sessions[s].status
       IN  IF Cardinality(found) > 1
           THEN Finish(s, 500)
           ELSE IF found = {}
           THEN sessions' = [sessions EXCEPT ![s].pc = "commit"]
           ELSE IF new = "done"
           THEN sessions' =
                   [sessions EXCEPT
                       ![s].assignment = row,
                       ![s].writes = @ \cup
                           StatusWrite("assignments", a, row.status, "completed")
                           \cup {Write("assignments", a, "completed_at", utcnow)},
                       ![s].pc = IF row.vehicle_id # NULL
                                 THEN "status_select_vehicle" ELSE "commit"]
           ELSE sessions' =
                   [sessions EXCEPT
                       ![s].assignment = row,
                       ![s].writes = @ \cup
                           StatusWrite("assignments", a, row.status,
                                       IF new = "on_way" THEN "on_progress"
                                       ELSE "assigned"),
                       ![s].pc = "commit"]
    /\ UNCHANGED <<reports, vehicles, assignments, nextId, last, isolation,
                   driver_locations, now>>

\* update_report_status, status "done": select(Vehicle);
\* vehicle.status = "available"
StatusSelectVehicle(s) ==
    /\ sessions[s].pc = "status_select_vehicle"
    /\ LET v == FindVehicle(View(s), sessions[s].assignment.vehicle_id)
       IN  sessions' =
              [sessions EXCEPT
                  ![s].pc = "commit",
                  ![s].writes =
                      IF v # NULL
                      THEN @ \cup StatusWrite("vehicles", v, View(s).vehicles[v],
                                              "available")
                      ELSE @]
    /\ UNCHANGED <<reports, vehicles, assignments, nextId, last, isolation,
                   driver_locations, now>>

\* delete_assignment: select(Assignment)
DeleteSelectAssignment(s) ==
    /\ sessions[s].pc = "delete_select_assignment"
    /\ LET a == sessions[s].assignment_id
       IN  IF ~HasRow(View(s).assignments, a)
           THEN Finish(s, 404)
           ELSE sessions' =
                   [sessions EXCEPT
                       ![s].snapshot = Snapshot(s),
                       ![s].locations = driver_locations,
                       ![s].assignment = View(s).assignments[a],
                       ![s].pc = "delete_select_vehicle"]
    /\ UNCHANGED <<reports, vehicles, assignments, nextId, last, isolation,
                   driver_locations, now>>

\* delete_assignment: select(Vehicle); vehicle.status = "available"
DeleteSelectVehicle(s) ==
    /\ sessions[s].pc = "delete_select_vehicle"
    /\ LET v == FindVehicle(View(s), sessions[s].assignment.vehicle_id)
       IN  sessions' =
              [sessions EXCEPT
                  ![s].pc = "delete_select_report",
                  ![s].writes =
                      IF v # NULL
                      THEN @ \cup StatusWrite("vehicles", v, View(s).vehicles[v],
                                              "available")
                      ELSE @]
    /\ UNCHANGED <<reports, vehicles, assignments, nextId, last, isolation,
                   driver_locations, now>>

\* delete_assignment: select(Report); report.status = "pending";
\* await db.delete(assignment)
DeleteSelectReport(s) ==
    /\ sessions[s].pc = "delete_select_report"
    /\ LET r == sessions[s].assignment.report_id
       IN  sessions' =
              [sessions EXCEPT
                  ![s].pc = "delete_load_locations",
                  ![s].writes =
                      (IF HasRow(View(s).reports, r)
                       THEN @ \cup StatusWrite("reports", r, View(s).reports[r],
                                               "pending")
                       ELSE @)
                      \cup {DeleteOf(sessions[s].assignment_id)}]
    /\ UNCHANGED <<reports, vehicles, assignments, nextId, last, isolation,
                   driver_locations, now>>

\* the rows of driver_locations a select of session s reads
LocationsView(s) ==
    IF isolation = "REPEATABLE READ" THEN sessions[s].locations ELSE driver_locations

\* delete_assignment, await db.commit(): before it deletes the assignment
\* the flush selects the assignment's driver_locations, the collection of
\* relationship("Assignment", backref="driver_locations"), to set their
\* assignment_id to NULL
DeleteLoadLocations(s) ==
    /\ sessions[s].pc = "delete_load_locations"
    /\ sessions' =
          [sessions EXCEPT
              ![s].pc = "delete_commit",
              ![s].children =
                  {i \in DOMAIN LocationsView(s) :
                      LocationsView(s)[i].assignment_id = sessions[s].assignment_id}]
    /\ UNCHANGED <<reports, vehicles, assignments, nextId, last, isolation,
                   driver_locations, now>>

\* ForeignKey("assignments.id") of driver_locations.assignment_id: the DELETE
\* of assignment a is refused while a committed row still references a
ForeignKeyRefuses(locations, children, a) ==
    \E i \in DOMAIN locations \ children : locations[i].assignment_id = a

\* delete_assignment, await db.commit(): the UPDATEs, the DELETE and the
\* commit
DeleteCommit(s) ==
    /\ sessions[s].pc = "delete_commit"
    /\ IF \/ Stale(DB, sessions[s].writes)
          \/ ForeignKeyRefuses(driver_locations, sessions[s].children,
                               sessions[s].assignment_id)
       \* StaleDataError or IntegrityError: the session is rolled back
       THEN /\ Finish(s, 500)
            /\ UNCHANGED <<reports, vehicles, assignments, driver_locations>>
       ELSE /\ Finish(s, 200)
            /\ vehicles' = Flush(DB, sessions[s].writes).vehicles
            /\ assignments' = Flush(DB, sessions[s].writes).assignments
            /\ reports' = Flush(DB, sessions[s].writes).reports
            /\ driver_locations' =
                  Orphaned(driver_locations, sessions[s].assignment_id)
    /\ UNCHANGED <<nextId, last, isolation, now>>

\* the states a request with its assignment and the attached vehicle can be
\* in: request status, assignment status, completed_at, vehicle status
RaceStates ==
    {<<"assigned", "assigned", NULL, "in_use">>,
     <<"pending", "assigned", NULL, "in_use">>,
     <<"on_way", "on_progress", NULL, "in_use">>,
     <<"arrived_pickup", "on_progress", NULL, "in_use">>,
     <<"canceled", "on_progress", NULL, "in_use">>,
     <<"done", "completed", utcnow, "available">>}

\* request 1 has assignment 1 with vehicle 1 attached; a call
\* PUT /reports/1/status and an admin's call DELETE /assignments/1 arrive
\* together
RaceInit ==
    /\ isolation \in IsolationLevels
    /\ \E st \in RaceStates :
          /\ reports = [r \in ReportIds |-> st[1]]
          /\ assignments =
                <<[report_id |-> 1, driver_id |-> "driver1", vehicle_id |-> 1,
                   status |-> st[2], completed_at |-> st[3],
                   coffin_checklist_confirmed |-> FALSE]>>
          /\ vehicles = [v \in VehicleIds |-> IF v = 1 THEN st[4] ELSE "available"]
    /\ \E new \in valid_statuses :
          sessions =
             <<[NewSession(NULL, NULL, DB) EXCEPT
                   !.pc = "status_select_report", !.report_id = 1, !.status = new],
               [NewSession(1, NULL, DB) EXCEPT !.pc = "delete_select_assignment"]>>
    /\ nextId = MaxAssign
    /\ last = NoCall
    /\ driver_locations = <<>>
    /\ now = 0

RaceNext ==
    \/ \E s \in DOMAIN sessions : StatusSelectReport(s)
    \/ \E s \in DOMAIN sessions : StatusSelectAssignment(s)
    \/ \E s \in DOMAIN sessions : StatusSelectVehicle(s)
    \/ \E s \in DOMAIN sessions : DeleteSelectAssignment(s)
    \/ \E s \in DOMAIN sessions : DeleteSelectVehicle(s)
    \/ \E s \in DOMAIN sessions : DeleteSelectReport(s)
    \/ \E s \in DOMAIN sessions : DeleteLoadLocations(s)
    \/ \E s \in DOMAIN sessions : DeleteCommit(s)
    \/ \E s \in DOMAIN sessions : CommitSession(s)

SpecRace == RaceInit /\ [][RaceNext]_vars

\* request 1 has assignment 1 of driver1 with vehicle 1 attached; an admin's
\* call DELETE /assignments/1 runs while driver1 records locations
LocationRaceInit ==
    /\ isolation \in IsolationLevels
    /\ \E st \in RaceStates :
          /\ reports = [r \in ReportIds |-> st[1]]
          /\ assignments =
                <<[report_id |-> 1, driver_id |-> "driver1", vehicle_id |-> 1,
                   status |-> st[2], completed_at |-> st[3],
                   coffin_checklist_confirmed |-> FALSE]>>
          /\ vehicles = [v \in VehicleIds |-> IF v = 1 THEN st[4] ELSE "available"]
    /\ sessions = <<[NewSession(1, NULL, DB) EXCEPT !.pc = "delete_select_assignment"]>>
    /\ nextId = MaxAssign
    /\ last = NoCall
    /\ driver_locations = <<>>
    /\ now = 0

LocationRaceNext ==
    \/ \E s \in DOMAIN sessions : DeleteSelectAssignment(s)
    \/ \E s \in DOMAIN sessions : DeleteSelectVehicle(s)
    \/ \E s \in DOMAIN sessions : DeleteSelectReport(s)
    \/ \E s \in DOMAIN sessions : DeleteLoadLocations(s)
    \/ \E s \in DOMAIN sessions : DeleteCommit(s)
    \/ \E a \in AssignIds \cup {NULL} : CreateDriverLocation("driver1", a, "driver1")
    \/ Respond

SpecLocationRace == LocationRaceInit /\ [][LocationRaceNext]_vars

(***************************************************************************)
(* Properties                                                              *)
(***************************************************************************)
Live(row) == row.status \notin TerminalAssignmentStatuses

\* the live assignments of table `rows` that reference vehicle v
LiveRefs(rows, v) ==
    {a \in DOMAIN rows : rows[a].vehicle_id = v /\ Live(rows[a])}

\* the live assignments of table `rows` that belong to request r
LiveOfReport(rows, r) ==
    {a \in DOMAIN rows : rows[a].report_id = r /\ Live(rows[a])}

Answered(op) == last.op = op

Ok(op) == last.op = op /\ last.code \in {200, 201}

\* the caller of the last call may change assignment a: an admin, or the
\* driver the assignment was given to
Authorized(a) ==
    \/ UserRole[last.args.current_user] = "admin"
    \/ /\ UserRole[last.args.current_user] = "driver"
       /\ last.pre.assignments[a].driver_id = last.args.current_user

\* C1: a vehicle is in_use if and only if exactly one live assignment
\* (status neither completed nor cancelled) references it.
C1_InUseIffOneLiveAssignment ==
    \A v \in DOMAIN vehicles :
        (vehicles[v] = "in_use") <=> (Cardinality(LiveRefs(assignments, v)) = 1)

\* C2: the status of every live assignment is the table image of the status
\* of its request.
C2_StatusIsTableImage ==
    \A a \in DOMAIN assignments :
        (Live(assignments[a]) /\ HasRow(reports, assignments[a].report_id))
        => assignments[a].status = status_mapping(reports[assignments[a].report_id])

\* C3: when two update_assignment calls that name the same available vehicle
\* V for two different assignments run concurrently, then once both are
\* answered exactly one has succeeded, the other was refused with a conflict
\* (400), V is in_use and exactly one of the two assignments has
\* vehicle_id = V.
C3_ConcurrentAttachOneWins ==
    \A s, t \in DOMAIN sessions :
        ( /\ s # t
          /\ sessions[s].pc = "done" /\ sessions[t].pc = "done"
          /\ sessions[s].assignment_id # sessions[t].assignment_id
          /\ sessions[s].vehicle_id = sessions[t].vehicle_id
          /\ sessions[s].pre.vehicles[sessions[s].vehicle_id] = "available" )
        => /\ {sessions[s].code, sessions[t].code} = {200, 400}
           /\ vehicles[sessions[s].vehicle_id] = "in_use"
           /\ Cardinality({a \in {sessions[s].assignment_id,
                                   sessions[t].assignment_id} :
                              assignments[a].vehicle_id = sessions[s].vehicle_id}) = 1

\* C4: a successful delete_assignment removes the assignment, leaves the
\* vehicle that was attached to it available and its request pending,
\* whatever their statuses were.
C4_DeleteLeavesAvailableAndPending ==
    Ok("delete_assignment") =>
        LET a == last.args.assignment_id
            row == last.pre.assignments[a]
        IN  /\ a \notin DOMAIN assignments
            /\ row.vehicle_id # NULL => vehicles[row.vehicle_id] = "available"
            /\ reports[row.report_id] = "pending"

C4_Witness ==
    /\ Ok("delete_assignment")
    /\ LET row == last.pre.assignments[last.args.assignment_id]
       IN  /\ row.vehicle_id # NULL
           /\ last.pre.vehicles[row.vehicle_id] = "in_use"
           /\ last.pre.reports[row.report_id] = "on_way"
           /\ vehicles[row.vehicle_id] = "available"
           /\ reports[row.report_id] = "pending"

\* C5: from a pending request r without assignment, an available vehicle v
\* and a driver d: an admin's create_assignment(r, d) gives an assignment a
\* with a and r assigned; attaching v to a leaves both assigned and v in_use;
\* setting r to on_way makes a on_progress; setting r to done leaves r done,
\* a completed with completed_at set, and v available.
C5_Scenario ==
    LET pre == last.pre
        a == last.args.assignment_id
        r == last.args.report_id
        v == last.args.vehicle_id
        only == CHOOSE x \in AssignmentsOfReport(pre, r) : TRUE
    IN  /\ ( /\ Answered("create_assignment")
             /\ UserRole[last.args.current_user] = "admin"
             /\ IsDriver(last.args.driver_id)
             /\ HasRow(pre.reports, r)
             /\ pre.reports[r] = "pending"
             /\ AssignmentsOfReport(pre, r) = {} )
           => /\ last.code = 201
              /\ assignments[a].status = "assigned"
              /\ reports[r] = "assigned"
        /\ ( /\ Answered("update_assignment")
             /\ UserRole[last.args.current_user] = "admin"
             /\ last.args.driver_id = NoUser
             /\ HasRow(pre.assignments, a)
             /\ pre.assignments[a].status = "assigned"
             /\ pre.assignments[a].vehicle_id = NULL
             /\ pre.reports[pre.assignments[a].report_id] = "assigned"
             /\ HasRow(pre.vehicles, v)
             /\ pre.vehicles[v] = "available" )
           => /\ last.code = 200
              /\ assignments[a].status = "assigned"
              /\ assignments[a].vehicle_id = v
              /\ reports[assignments[a].report_id] = "assigned"
              /\ vehicles[v] = "in_use"
        /\ ( /\ Answered("update_report_status")
             /\ last.args.status = "on_way"
             /\ HasRow(pre.reports, r)
             /\ pre.reports[r] = "assigned"
             /\ Cardinality(AssignmentsOfReport(pre, r)) = 1
             /\ pre.assignments[only].status = "assigned"
             /\ pre.assignments[only].vehicle_id # NULL
             /\ pre.vehicles[pre.assignments[only].vehicle_id] = "in_use" )
           => /\ last.code = 200
              /\ reports[r] = "on_way"
              /\ assignments[only].status = "on_progress"
              /\ vehicles[assignments[only].vehicle_id] = "in_use"
        /\ ( /\ Answered("update_report_status")
             /\ last.args.status = "done"
             /\ HasRow(pre.reports, r)
             /\ pre.reports[r] = "on_way"
             /\ Cardinality(AssignmentsOfReport(pre, r)) = 1
             /\ pre.assignments[only].status = "on_progress"
             /\ pre.assignments[only].vehicle_id # NULL
             /\ pre.vehicles[pre.assignments[only].vehicle_id] = "in_use" )
           => /\ last.code = 200
              /\ reports[r] = "done"
              /\ assignments[only].status = "completed"
              /\ assignments[only].completed_at # NULL
              /\ vehicles[assignments[only].vehicle_id] = "available"

C5_Witness ==
    /\ Ok("update_report_status")
    /\ last.args.status = "done"
    /\ last.pre.reports[last.args.report_id] = "on_way"
    /\ \E a \in DOMAIN assignments :
          /\ AssignmentsOfReport(last.pre, last.args.report_id) = {a}
          /\ last.pre.assignments[a].status = "on_progress"
          /\ last.pre.assignments[a].completed_at = NULL
          /\ last.pre.assignments[a].vehicle_id # NULL
          /\ last.pre.vehicles[last.pre.assignments[a].vehicle_id] = "in_use"
          /\ assignments[a].status = "completed"
          /\ assignments[a].completed_at # NULL
          /\ vehicles[assignments[a].vehicle_id] = "available"
    /\ reports[last.args.report_id] = "done"

\* C6: create_assignment on a request that already has a live assignment
\* fails and creates no assignment, so that every request has at most one
\* live assignment.
C6_CreateOnLiveRequestConflicts ==
    /\ ( /\ Answered("create_assignment")
         /\ LiveOfReport(last.pre.assignments, last.args.report_id) # {} )
       => /\ last.code \notin {200, 201}
          /\ assignments = last.pre.assignments
    /\ \A r \in DOMAIN reports : Cardinality(LiveOfReport(assignments, r)) <= 1

C8_UnavailableVehicleRefused ==
    LET pre == last.pre
        a == last.args.assignment_id
        v == last.args.vehicle_id
    IN  ( /\ Answered("update_assignment")
          /\ HasRow(pre.assignments, a)
          /\ HasRow(pre.vehicles, v)
          /\ pre.vehicles[v] # "available"
          /\ pre.assignments[a].vehicle_id # v )
        => /\ last.code \notin {200, 201}
           /\ Authorized(a) => last.code = 400
           /\ vehicles[v] = pre.vehicles[v]
           /\ assignments[a].vehicle_id = pre.assignments[a].vehicle_id

C8_Witness ==
    LET pre == last.pre
        a == last.args.assignment_id
        v == last.args.vehicle_id
    IN  /\ Answered("update_assignment")
        /\ last.code = 400
        /\ HasRow(pre.assignments, a)
        /\ pre.assignments[a].vehicle_id \notin {NULL, v}
        /\ pre.vehicles[v] = "in_use"
        /\ vehicles[v] = "in_use"

\* C9: a successful update_assignment that names an available vehicle other
\* than the assignment's own sets the previously attached vehicle, if there
\* was one, to available, the new vehicle to in_use and the assignment's
\* vehicle_id to the new vehicle; every other vehicle, the assignment's status
\* and every request's status stay as they were.
C9_AttachOrReplace ==
    LET pre == last.pre
        a == last.args.assignment_id
        v == last.args.vehicle_id
        old == pre.assignments[a].vehicle_id
    IN  ( /\ Ok("update_assignment")
          /\ v # NULL
          /\ v # old )
        => /\ pre.vehicles[v] = "available"
           /\ vehicles[v] = "in_use"
           /\ old # NULL => vehicles[old] = "available"
           /\ assignments[a].vehicle_id = v
           /\ \A w \in DOMAIN vehicles \ {v, old} : vehicles[w] = pre.vehicles[w]
           /\ DOMAIN vehicles = DOMAIN pre.vehicles
           /\ assignments[a].status = pre.assignments[a].status
           /\ reports = pre.reports

C9_Witness ==
    LET pre == last.pre
        a == last.args.assignment_id
        v == last.args.vehicle_id
    IN  /\ Ok("update_assignment")
        /\ v # NULL
        /\ pre.assignments[a].vehicle_id \notin {NULL, v}
        /\ pre.vehicles[pre.assignments[a].vehicle_id] = "in_use"
        /\ vehicles[pre.assignments[a].vehicle_id] = "available"
        /\ vehicles[v] = "in_use"

\* C10: an update_assignment call that fails (vehicle missing, vehicle not
\* available, driver missing or not a driver, also together with a valid
\* vehicle change) leaves every committed row as it was.
C10_FailedUpdateChangesNothing ==
    ( /\ Answered("update_assignment")
      /\ last.code \notin {200, 201} )
    => DB = last.pre

C10_Witness ==
    LET pre == last.pre
        a == last.args.assignment_id
        v == last.args.vehicle_id
    IN  /\ Answered("update_assignment")
        /\ last.code = 404
        /\ last.detail = "driver not found"
        /\ pre.assignments[a].vehicle_id \notin {NULL, v}
        /\ pre.vehicles[pre.assignments[a].vehicle_id] = "in_use"
        /\ HasRow(pre.vehicles, v)
        /\ pre.vehicles[v] = "available"
        /\ vehicles[pre.assignments[a].vehicle_id] = "in_use"
        /\ vehicles[v] = "available"


C12_TerminalRequestStaysTerminal ==
    ( /\ Answered("update_report_status")
      /\ HasRow(last.pre.reports, last.args.report_id)
      /\ last.pre.reports[last.args.report_id] \in {"done", "canceled"} )
    => /\ last.code \notin {200, 201}
       /\ DB = last.pre

\* C16: update_report_status with a status outside the seven accepted values
\* is refused as invalid input (422, by the request schema) and leaves every
\* request, assignment and vehicle as it was.
C16_InvalidStatusRefused ==
    ( /\ Answered("update_report_status")
      /\ last.args.status \notin valid_statuses )
    => /\ last.code = 422
       /\ DB = last.pre

C16_Witness ==
    /\ Answered("update_report_status")
    /\ last.args.status = "bogus"
    /\ HasRow(last.pre.reports, last.args.report_id)
    /\ AssignmentsOfReport(last.pre, last.args.report_id) # {}
    /\ last.code = 422
    /\ DB = last.pre

\* C17: update_report_status with any of the seven valid statuses on an
\* existing request that has no assignment succeeds, sets the request's
\* status to the new value, and leaves every assignment and vehicle as it was.
C17_StatusWithoutAssignment ==
    LET pre == last.pre
        r == last.args.report_id
    IN  ( /\ Answered("update_report_status")
          /\ last.args.status \in valid_statuses
          /\ HasRow(pre.reports, r)
          /\ AssignmentsOfReport(pre, r) = {} )
        => /\ last.code = 200
           /\ reports[r] = last.args.status
           /\ \A q \in DOMAIN reports \ {r} : reports[q] = pre.reports[q]
           /\ assignments = pre.assignments
           /\ vehicles = pre.vehicles

C17_Witness ==
    LET pre == last.pre
        r == last.args.report_id
    IN  /\ Ok("update_report_status")
        /\ AssignmentsOfReport(pre, r) = {}
        /\ pre.reports[r] = "done"
        /\ last.args.status = "on_way"
        /\ reports[r] = "on_way"
        /\ assignments = pre.assignments
        /\ vehicles = pre.vehicles



\* the four operations that may change a vehicle's availability
AvailabilityOps ==
    {"update_report_status", "create_assignment", "update_assignment",
     "delete_assignment"}

\* C14: no operation other than update_report_status, create_assignment,
\* update_assignment and delete_assignment changes the status of an existing
\* vehicle between available and in_use.
C14_OnlyCoordinationChangesAvailability ==
    (last # NoCall /\ last.op \notin AvailabilityOps)
    => \A v \in DOMAIN last.pre.vehicles :
          ~ /\ HasRow(vehicles, v)
            /\ {last.pre.vehicles[v], vehicles[v]} = {"available", "in_use"}

\* C15: no operation changes a request's status and leaves a live assignment
\* of that request with a status that is not the table image of the
\* request's new status.
C15_StatusChangeCarriesAssignment ==
    \A r \in DOMAIN reports :
        ( /\ last # NoCall
          /\ HasRow(last.pre.reports, r)
          /\ last.pre.reports[r] # reports[r] )
        => \A a \in LiveOfReport(assignments, r) :
              assignments[a].status = status_mapping(reports[r])



\* the request of the assignment that location row i references is in one of
\* the statuses S
RowRequestIn(i, S) ==
    LET a == driver_locations[i].assignment_id
    IN  /\ a # NULL
        /\ HasRow(assignments, a)
        /\ HasRow(reports, assignments[a].report_id)
        /\ reports[assignments[a].report_id] \in S

\* C18: in a presence snapshot, the record of a driver whose latest location
\* row references an assignment whose request is done or canceled has
\* assignment_id cleared, while the stored row keeps its assignment_id:
\* neither the snapshot nor the status change writes to driver_locations.
C18_FinishedRequestShowsIdle ==
    /\ Ok("get_all_active_driver_locations") =>
          \A k \in DOMAIN last.data :
              (last.data[k].has_location
               /\ RowRequestIn(last.data[k].id, {"done", "canceled"}))
              => /\ last.data[k].assignment_id = NULL
                 /\ driver_locations[last.data[k].id].assignment_id # NULL
    /\ (Answered("get_all_active_driver_locations")
        \/ Answered("update_report_status"))
       => driver_locations = last.locations

C18_Witness ==
    /\ Ok("get_all_active_driver_locations")
    /\ \E k \in DOMAIN last.data :
          /\ last.data[k].has_location
          /\ RowRequestIn(last.data[k].id, {"done"})
          /\ last.data[k].assignment_id = NULL
          /\ driver_locations[last.data[k].id].assignment_id # NULL

\* C19: a snapshot built from a stored row of driver D that references
\* assignment A shows D on duty (assignment_id = A, with the request's
\* summary) while A's request is on_way; once the request is canceled, with
\* the stored rows as they were, it shows D idle (assignment_id cleared).
C19_OnDutyThenIdleAfterCancel ==
    /\ Ok("get_all_active_driver_locations") =>
          \A k \in DOMAIN last.data :
              LET rec == last.data[k]
                  a == driver_locations[rec.id].assignment_id
              IN  /\ (rec.has_location /\ RowRequestIn(rec.id, {"on_way"}))
                     => /\ rec.driver_id = Drivers[k]
                        /\ rec.assignment_id = a
                        /\ rec.report.id = assignments[a].report_id
                        /\ rec.report.status = "on_way"
                  /\ (rec.has_location /\ RowRequestIn(rec.id, {"canceled"}))
                     => /\ rec.driver_id = Drivers[k]
                        /\ rec.assignment_id = NULL
                        /\ rec.report = NoReport
    /\ (Ok("update_report_status") /\ last.args.status = "canceled")
       => driver_locations = last.locations

\* the snapshot after the cancel: D's only row was recorded with A, and the
\* record built from it is idle
C19_Witness ==
    /\ Ok("get_all_active_driver_locations")
    /\ \E k \in DOMAIN last.data :
          /\ last.data[k].has_location
          /\ LatestLocations(driver_locations, Drivers[k]) = {last.data[k].id}
          /\ RowRequestIn(last.data[k].id, {"canceled"})
          /\ last.data[k].assignment_id = NULL

\* the snapshot before the cancel, in the same scenario
C19_WitnessOnDuty ==
    /\ Ok("get_all_active_driver_locations")
    /\ \E k \in DOMAIN last.data :
          /\ last.data[k].has_location
          /\ RowRequestIn(last.data[k].id, {"on_way"})
          /\ last.data[k].assignment_id # NULL

\* C20: for every driver that has no row in driver_locations the snapshot
\* holds a placeholder record: the default coordinate, has_location false
\* and assignment_id null.
C20_PlaceholderForSilentDriver ==
    Ok("get_all_active_driver_locations") =>
        \A k \in DOMAIN Drivers :
            (\A i \in DOMAIN driver_locations :
                 driver_locations[i].driver_id # Drivers[k])
            => /\ k \in DOMAIN last.data
               /\ last.data[k].driver_id = Drivers[k]
               /\ last.data[k].latitude = DEFAULT_LATITUDE
               /\ last.data[k].longitude = DEFAULT_LONGITUDE
               /\ last.data[k].has_location = FALSE
               /\ last.data[k].assignment_id = NULL

C20_Witness ==
    /\ Ok("get_all_active_driver_locations")
    /\ \E k, j \in DOMAIN last.data :
          /\ ~last.data[k].has_location
          /\ last.data[k].latitude = DEFAULT_LATITUDE
          /\ \E a \in DOMAIN assignments :
                assignments[a].driver_id = Drivers[k] /\ Live(assignments[a])
          /\ last.data[j].has_location



\* the rows update_report_status(1, new) and an admin's delete_assignment(1)
\* leave when run one after the other from `db`, in either order
SerialStatusThenDelete(db, new) ==
    delete_assignment(update_report_status(db, 1, new).db, 1, "admin1").db

SerialDeleteThenStatus(db, new) ==
    update_report_status(delete_assignment(db, 1, "admin1").db, 1, new).db

\* C13: for a request whose assignment has a vehicle attached, once a
\* concurrent update_report_status and delete_assignment are both answered,
\* the committed rows are those of one of the two serial orders (assignment
\* removed, vehicle available, request pending or the new status), or one of
\* the two calls has failed and the rows are those of the other call alone.
C13_StatusDeleteRaceSerializable ==
    (\A s \in DOMAIN sessions : sessions[s].pc = "done")
    => LET pre == sessions[1].pre
           new == sessions[1].status
       IN  \/ /\ sessions[1].code = 200 /\ sessions[2].code = 200
              /\ DB \in {SerialStatusThenDelete(pre, new),
                         SerialDeleteThenStatus(pre, new)}
           \/ /\ sessions[1].code # 200 /\ sessions[2].code = 200
              /\ DB = delete_assignment(pre, 1, "admin1").db
           \/ /\ sessions[1].code = 200 /\ sessions[2].code # 200
              /\ DB = update_report_status(pre, 1, new).db

\* the delete committed between the status call's select of the assignment
\* and its commit: the status call's UPDATE matched no row and it failed
C13_Witness ==
    /\ \A s \in DOMAIN sessions : sessions[s].pc = "done"
    /\ sessions[1].status = "done"
    /\ sessions[1].code = 500
    /\ sessions[2].code = 200
    /\ sessions[1].pre.vehicles[1] = "in_use"
    /\ assignments = <<>>
    /\ vehicles[1] = "available"
    /\ reports[1] = "pending"

\* both calls committed, the status call last: the request keeps the new
\* status with its assignment removed
C13_WitnessBothCommit ==
    /\ \A s \in DOMAIN sessions : sessions[s].pc = "done" /\ sessions[s].code = 200
    /\ sessions[1].status = "arrived_pickup"
    /\ sessions[1].pre.vehicles[1] = "in_use"
    /\ assignments = <<>>
    /\ vehicles[1] = "available"
    /\ reports[1] = "arrived_pickup"

\* C21: in a presence snapshot, the record built from a location row that
\* references an assignment whose request exists and is neither done nor
\* canceled keeps the row's assignment_id, carries the summary of that
\* request with its current status, and carries the vehicle exactly when
\* the assignment has one attached.
C21_OnDutyRecordCarriesJob ==
    Ok("get_all_active_driver_locations") =>
        \A k \in DOMAIN last.data :
            LET rec == last.data[k]
                a == driver_locations[rec.id].assignment_id
            IN  (rec.has_location
                 /\ RowRequestIn(rec.id, ReportStatuses \ {"done", "canceled"}))
                => /\ rec.assignment_id = a
                   /\ rec.report.id = assignments[a].report_id
                   /\ rec.report.status = reports[assignments[a].report_id]
                   /\ (rec.vehicle # NULL) <=> (assignments[a].vehicle_id # NULL)
                   /\ rec.vehicle = assignments[a].vehicle_id

\* a driver on duty with a vehicle attached
C21_Witness ==
    /\ Ok("get_all_active_driver_locations")
    /\ \E k \in DOMAIN last.data :
          /\ last.data[k].has_location
          /\ RowRequestIn(last.data[k].id, {"on_way"})
          /\ last.data[k].assignment_id # NULL
          /\ last.data[k].vehicle # NULL
          /\ last.data[k].report.status = "on_way"

\* a driver on duty before a vehicle is attached
C21_WitnessNoVehicle ==
    /\ Ok("get_all_active_driver_locations")
    /\ \E k \in DOMAIN last.data :
          /\ last.data[k].has_location
          /\ RowRequestIn(last.data[k].id, {"assigned"})
          /\ last.data[k].assignment_id # NULL
          /\ last.data[k].vehicle = NULL
          /\ assignments[last.data[k].assignment_id].vehicle_id = NULL

\* C22: a presence snapshot holds exactly one record for every user of role
\* driver, whether or not the driver has a row in driver_locations, and no
\* record for a user of another role.
C22_OneRecordPerDriver ==
    Ok("get_all_active_driver_locations") =>
        /\ \A u \in UserIds :
              Cardinality({k \in DOMAIN last.data : last.data[k].driver_id = u})
                 = IF UserRole[u] = "driver" THEN 1 ELSE 0
        /\ \A k \in DOMAIN last.data : IsDriver(last.data[k].driver_id)

\* one driver has recorded a location and another has not
C22_Witness ==
    /\ Ok("get_all_active_driver_locations")
    /\ \E k, j \in DOMAIN last.data :
          /\ last.data[k].has_location
          /\ ~last.data[j].has_location
          /\ \A i \in DOMAIN driver_locations :
                driver_locations[i].driver_id # last.data[j].driver_id

\* the calls that only read the location log
LocationReads ==
    {"get_all_active_driver_locations", "get_driver_latest_location",
     "get_driver_location_history"}

\* C23: the presence snapshot, the latest-location read and the history read
\* leave every row of reports, assignments, vehicles and driver_locations as
\* it was before the call.
C23_LocationReadsWriteNothing ==
    last.op \in LocationReads
    => /\ DB = last.pre
       /\ driver_locations = last.locations

\* a snapshot that shows a driver idle although the stored row of that
\* driver still references the assignment of a canceled request
C23_Witness ==
    /\ Ok("get_all_active_driver_locations")
    /\ \E k \in DOMAIN last.data :
          /\ last.data[k].has_location
          /\ last.data[k].assignment_id = NULL
          /\ RowRequestIn(last.data[k].id, {"canceled"})
          /\ driver_locations = last.locations
          /\ DB = last.pre

\* a latest-location read and a history read over a log that is not empty
C23_WitnessLatest ==
    /\ Ok("get_driver_latest_location")
    /\ driver_locations # <<>>
    /\ assignments # <<>>

C23_WitnessHistory ==
    /\ Ok("get_driver_location_history")
    /\ Len(last.data.response.items) = 2

\* the caller may record a location for driver d: any caller that is not a
\* driver, or d itself
MayRecordFor(u, d) == UserRole[u] # "driver" \/ u = d

\* C24: a record-location call for an existing driver, made by a caller
\* allowed to record for that driver, succeeds whatever assignment_id it
\* carries and appends exactly one row, also when the coordinates repeat
\* those of the row before.
C24_RecordAlwaysAppends ==
    (Answered("create_driver_location")
     /\ IsDriver(last.args.driver_id)
     /\ MayRecordFor(last.args.current_user, last.args.driver_id))
    => /\ last.code = 201
       /\ Len(driver_locations) = Len(last.locations) + 1
       /\ SubSeq(driver_locations, 1, Len(last.locations)) = last.locations
       /\ driver_locations[Len(driver_locations)].driver_id = last.args.driver_id

\* C25: a record-location call whose driver_id is not the id of a user of
\* role driver (no such user, or an admin or a reporter) is answered 404 and
\* appends no row.
C25_RecordForNonDriverRefused ==
    (Answered("create_driver_location")
     /\ (last.args.driver_id \notin UserIds
         \/ UserRole[last.args.driver_id] # "driver"))
    => /\ last.code = 404
       /\ driver_locations = last.locations

\* an admin records a location for a reporter, with a row already logged
C25_Witness ==
    /\ Answered("create_driver_location")
    /\ last.args.driver_id = "reporter1"
    /\ last.args.current_user = "admin1"
    /\ last.code = 404
    /\ Len(driver_locations) = 1
    /\ driver_locations = last.locations

\* a driver records a location for an id that no user has
C25_WitnessUnknown ==
    /\ Answered("create_driver_location")
    /\ last.args.driver_id = UnknownUser
    /\ last.code = 404

\* C26: the latest-location read for an existing driver is not answered with
\* an error: without rows of that driver it carries no data, otherwise it
\* carries a row of that driver with the greatest timestamp.
C26_LatestOrNoData ==
    (Answered("get_driver_latest_location") /\ IsDriver(last.args.driver_id))
    => /\ last.code = 200
       /\ IF RowsOf(driver_locations, last.args.driver_id) = {}
          THEN last.data = NoData
          ELSE /\ last.data.id \in RowsOf(driver_locations, last.args.driver_id)
               /\ \A i \in RowsOf(driver_locations, last.args.driver_id) :
                     driver_locations[i].timestamp <= last.data.timestamp

\* the pages of a walk, one after the other
RECURSIVE Concatenated(_)
Concatenated(pages) ==
    IF pages = <<>> THEN <<>> ELSE Head(pages) \o Concatenated(Tail(pages))

\* the history call just answered was the last page of a walk that began at
\* page 1
WalkComplete ==
    /\ Ok("get_driver_location_history")
    /\ Len(last.data.fetched) = last.data.response.page
    /\ last.data.response.page = last.data.response.pages

\* C27: over a log that does not change, the pages 1..pages of a driver's
\* history (pages = ceil(total / size), size >= 1), put one after the other,
\* hold every row of that driver exactly once, in non-increasing timestamp
\* order, also when rows share a timestamp; total is the number of the
\* driver's rows.
C27_HistoryPagesCoverLog ==
    WalkComplete
    => LET all == Concatenated(last.data.fetched)
           rows == RowsOf(driver_locations, last.args.driver_id)
       IN  /\ last.data.response.total = Cardinality(rows)
           /\ \A i \in rows :
                 Cardinality({k \in DOMAIN all : all[k].id = i}) = 1
           /\ \A k \in DOMAIN all : all[k].id \in rows
           /\ \A j, k \in DOMAIN all :
                 j < k => all[j].timestamp >= all[k].timestamp

\* C28: no operation changes or removes a row of driver_locations once it
\* is there; delete_assignment leaves the rows that reference the deleted
\* assignment with driver_id, coordinates, timestamp and assignment_id as
\* they were.
C28_LocationRowsImmutable ==
    last # NoCall
    => \A i \in DOMAIN last.locations :
          /\ i \in DOMAIN driver_locations
          /\ driver_locations[i] = last.locations[i]

C29_WitnessDriverCaller ==
    /\ Ok("update_assignment")
    /\ last.args.current_user = "driver1"
    /\ last.args.driver_id = "driver2"
    /\ assignments[last.args.assignment_id].driver_id = "driver1"

\* an admin names a reporter as the new driver
C29_WitnessNotFound ==
    /\ Answered("update_assignment")
    /\ last.args.current_user = "admin1"
    /\ last.args.driver_id = "reporter1"
    /\ last.args.vehicle_id = NULL
    /\ last.code = 404

\* C30: after a successful update_assignment that carries
\* coffin_checklist_confirmed = true the assignment's flag is true, and the
\* assignment's status, vehicle_id and driver_id, every vehicle's status and
\* the request's status are as before.
C30_CoffinChecklistConfirmed ==
    (Ok("update_assignment") /\ TRUE \in last.args.coffin_checklist_confirmed)
    => LET a == last.args.assignment_id
       IN  /\ assignments[a].coffin_checklist_confirmed = TRUE
           /\ assignments[a].status = last.pre.assignments[a].status
           /\ assignments[a].vehicle_id = last.pre.assignments[a].vehicle_id
           /\ assignments[a].driver_id = last.pre.assignments[a].driver_id
           /\ vehicles = last.pre.vehicles
           /\ reports = last.pre.reports

\* C31: an assignment's completed_at is set only while its status is
\* completed.
C31_CompletedAtOnlyWhenCompleted ==
    \A a \in DOMAIN assignments :
        assignments[a].completed_at # NULL => assignments[a].status = "completed"

\* C32: after update_report_status(r, "canceled") every assignment of r
\* that has a vehicle attached is cancelled, and that vehicle is not in_use.
C32_CancelReleasesVehicle ==
    (Ok("update_report_status") /\ last.args.status = "canceled")
    => \A a \in AssignmentsOfReport(DB, last.args.report_id) :
          assignments[a].vehicle_id # NULL
          => /\ assignments[a].status = "cancelled"
             /\ vehicles[assignments[a].vehicle_id] # "in_use"

\* C33: an update_assignment that names a vehicle for an assignment whose
\* status is completed or cancelled sets no vehicle to in_use.
C33_NoAttachToTerminalAssignment ==
    (Answered("update_assignment")
     /\ last.args.vehicle_id # NULL
     /\ HasRow(last.pre.assignments, last.args.assignment_id)
     /\ ~Live(last.pre.assignments[last.args.assignment_id]))
    => \A v \in DOMAIN vehicles :
          vehicles[v] = "in_use" => last.pre.vehicles[v] = "in_use"

\* C34: create_assignment, update_assignment, update_report_status and
\* delete_assignment leave a vehicle that is in maintenance in maintenance,
\* also when an assignment that references it is completed, deleted or
\* given another vehicle.
C34_MaintenanceVehicleUntouched ==
    last.op \in AvailabilityOps
    => \A v \in DOMAIN last.pre.vehicles :
          last.pre.vehicles[v] = "maintenance" => vehicles[v] = "maintenance"

\* row j is the row driver d recorded last, it carries no assignment, and d
\* has recorded a row with an assignment before it
IdleAfterDuty(d, j) ==
    /\ driver_locations[j].driver_id = d
    /\ driver_locations[j].assignment_id = NULL
    /\ \A i \in RowsOf(driver_locations, d) : i <= j
    /\ \E i \in RowsOf(driver_locations, d) :
          i < j /\ driver_locations[i].assignment_id # NULL

\* C35: when a driver has recorded a sample with an assignment and later a
\* sample without one, the presence snapshot shows the driver with the later
\* sample (its id, coordinates and timestamp), idle, has_location true.
C35_SnapshotShowsLaterSample ==
    Ok("get_all_active_driver_locations") =>
        \A k \in DOMAIN last.data :
            \A j \in DOMAIN driver_locations :
                IdleAfterDuty(Drivers[k], j)
                => /\ last.data[k].has_location
                   /\ last.data[k].id = j
                   /\ last.data[k].assignment_id = NULL
                   /\ last.data[k].latitude = driver_locations[j].latitude
                   /\ last.data[k].longitude = driver_locations[j].longitude

\* C36: a presence record has an assignment_id only if that assignment
\* exists and its request exists and is neither done nor canceled; a record
\* built from a row whose assignment does not exist has assignment_id null;
\* and once an assignment is deleted no row of driver_locations references
\* it.
C36_OnDutyOnlyForLiveJob ==
    /\ Ok("get_all_active_driver_locations") =>
          \A k \in DOMAIN last.data :
              LET rec == last.data[k]
              IN  /\ rec.assignment_id # NULL
                     => /\ HasRow(assignments, rec.assignment_id)
                        /\ HasRow(reports, assignments[rec.assignment_id].report_id)
                        /\ reports[assignments[rec.assignment_id].report_id]
                              \notin {"done", "canceled"}
                  /\ (rec.has_location
                      /\ ~HasRow(assignments, driver_locations[rec.id].assignment_id))
                     => rec.assignment_id = NULL
    /\ Ok("delete_assignment") =>
          \A i \in DOMAIN driver_locations :
              driver_locations[i].assignment_id # last.args.assignment_id

\* a snapshot taken after the only assignment there was has been deleted:
\* the driver's row no longer references it and the record is idle
C36_Witness ==
    /\ Ok("get_all_active_driver_locations")
    /\ assignments = <<>>
    /\ nextId = 2
    /\ reports[1] = "pending"
    /\ \E k \in DOMAIN last.data :
          /\ last.data[k].has_location
          /\ last.data[k].assignment_id = NULL
          /\ driver_locations[last.data[k].id].assignment_id = NULL

\* the delete that takes the reference off a recorded row
C36_WitnessDelete ==
    /\ Ok("delete_assignment")
    /\ \E i \in DOMAIN driver_locations :
          /\ last.locations[i].assignment_id = last.args.assignment_id
          /\ driver_locations[i].assignment_id = NULL

\* C37: a presence record without assignment_id carries neither a vehicle
\* nor a request summary.
C37_IdleRecordCarriesNoJob ==
    Ok("get_all_active_driver_locations") =>
        \A k \in DOMAIN last.data :
            last.data[k].assignment_id = NULL
            => /\ last.data[k].vehicle = NULL
               /\ last.data[k].report = NoReport

\* C38: update_report_status with one of the seven valid statuses on an
\* existing request is answered with success in every reachable state.
C38_ValidStatusAlwaysSucceeds ==
    (Answered("update_report_status")
     /\ last.args.status \in valid_statuses
     /\ HasRow(last.pre.reports, last.args.report_id))
    => last.code = 200

\* C39: an admin's delete of an assignment that runs while the driver records
\* locations succeeds and leaves the requests, assignments and vehicles that
\* the same delete leaves when no location is recorded.
C39_LocationWriteNeverFailsDelete ==
    sessions[1].pc = "done"
    => /\ sessions[1].code = 200
       /\ DB = delete_assignment(sessions[1].pre, sessions[1].assignment_id,
                                 "admin1").db

\* C40: after a successful status change of a request to s, every assignment
\* of the request has the status the sync script's status_mapping gives for s.
C40_HandlerAgreesWithSyncScript ==
    Ok("update_report_status")
    => \A a \in AssignmentsOfReport(DB, last.args.report_id) :
          assignments[a].status = status_mapping(last.args.status)

=============================================================================
